---- MODULE Spec2Model ----
(***************************************************************************)
(* Model of krew's plugin installation engine (package installation):      *)
(* Install / install / Uninstall / createOrUpdateLink / removeLink /       *)
(* pluginNameToBin, run by up to two processes against one filesystem.     *)
(*                                                                         *)
(* A path is a sequence of segments; a segment is a sequence of tokens     *)
(* (a plugin name is spelled character by character, so that the           *)
(* dash-to-underscore conversion of pluginNameToBin is computed).          *)
(* An error value is a sequence of messages, outermost first; nil is <<>>. *)
(*                                                                         *)
(* A second part models fetchPlugins of the site's API server: a producer  *)
(* loop, urlFetchBatchSize worker goroutines, an unbuffered queue, a       *)
(* cancellable context, a mutex and a WaitGroup.                           *)
(***************************************************************************)
EXTENDS Naturals, Sequences, FiniteSets, TLC

\* ---------------------------------------------------------------- bounds
MaxOps == 3          \* Install/Uninstall calls started in one run
MaxVersion == 2      \* manifest versions v1..vMaxVersion
MaxEntries == 3      \* entries handed to fetchPlugins: 0..MaxEntries
urlFetchBatchSize == 2   \* worker goroutines of fetchPlugins (40 in the source)

\* ---------------------------------------------------------------- inputs
Procs == {1, 2}

krewPluginName == <<"k", "r", "e", "w">>

PluginNames ==
    { <<"f", "o", "o">>, <<"a", "-", "b">>, <<"a", "_", "b">>, krewPluginName }

Versions == { <<"v", i>> : i \in 1..MaxVersion }

NoVersion == <<>>

BinFile == <<"foo">>

\* platform.Bin values, slash-separated in the manifest, here already split
InsideBin == <<BinFile>>

OutsideBin == << <<"..">>, <<"..">>, <<"evil">> >>

\* the selectors of a manifest's platform entries, in order
EveryOS == <<"linux", "windows">>

Manifest(name, version, selectors, bin, archive) ==
    [ name |-> name, version |-> version, selectors |-> selectors,
      bin |-> bin, archive |-> archive ]

Foo == <<"f", "o", "o">>

\* the manifests handed to Install. archive is what the archive at platform.URI
\* holds at its root.
Plugins ==
    \* a well-formed manifest of each name, and of each version of foo
    { Manifest(n, <<"v", 1>>, EveryOS, InsideBin, {BinFile}) : n \in PluginNames }
    \cup { Manifest(Foo, v, EveryOS, InsideBin, {BinFile}) : v \in Versions }
    \cup { \* the archive does not hold the declared bin
           Manifest(Foo, <<"v", 1>>, EveryOS, InsideBin, {}),
           \* bin leaves the install directory
           Manifest(Foo, <<"v", 1>>, EveryOS, OutsideBin, {BinFile}),
           \* no entry for linux; the second entry matches windows
           Manifest(Foo, <<"v", 1>>, <<"darwin", "windows">>, InsideBin, {BinFile}),
           \* a selector that cannot be evaluated
           Manifest(Foo, <<"v", 1>>, <<"bad">>, InsideBin, {BinFile}) }

\* (runtime.GOOS, KREW_OS): a linux build, with and without the override
Envs == { <<"linux", "">>, <<"linux", "windows">> }

Workers == 1..urlFetchBatchSize

\* ---------------------------------------------------------------- errors
Nil == <<>>

ErrIsAlreadyInstalled == <<"can't install, the newest version is already installed">>

ErrIsNotInstalled == <<"plugin is not installed">>

ErrSelfUninstall == <<"self-uninstall not allowed">>

\* errors.Wrap / errors.Wrapf of github.com/pkg/errors: nil stays nil
Wrap(err, msg) == IF err = Nil THEN Nil ELSE <<msg>> \o err

\* ---------------------------------------------------------------- state
VARIABLES
    goos,      \* runtime.GOOS
    krewOS,    \* the KREW_OS environment variable
    receipts,  \* plugin name -> version of the stored receipt, or NoVersion
    dirs,      \* the directories that exist (staging and install directories)
    files,     \* the regular files that exist below them
    links,     \* link name -> entry at that path of the bin directory
    pc,        \* per process: where it is in Install / Uninstall
    op,        \* per process: the call's arguments
    ierr,      \* per process: install()'s pending return value (while the defer runs)
    ret,       \* per process: the value the call returned
    seen,      \* per process: what the call has done so far (a history of the call)
    calls,     \* calls started so far
    raced,     \* TRUE once two calls on one link path were in flight together
    last       \* per process: the call it made before this one, if that call returned

\* the state of one call of fetchPlugins (the site's plugin list endpoint)
VARIABLES
    entries,      \* len(entries)
    fpc,          \* where fetchPlugins itself is
    spawned,      \* the loop variable i of the loop that starts the workers
    cursor,       \* the index of the entry the producer loop is at
    ctxDone,      \* ctx is cancelled
    queueClosed,  \* close(queue) has run
    wpc,          \* per worker goroutine: where it is
    wurl,         \* per worker: the entry whose url it received
    mu,           \* the worker holding the mutex, or 0
    out,          \* the entries whose plugin is appended to out, in order
    retErr,       \* nil (0), the error of an entry's readPlugin, or a torn value
    wg,           \* the WaitGroup counter
    failed,       \* the entries whose readPlugin has failed (history)
    fret          \* what fetchPlugins returned

ivars == <<goos, krewOS, receipts, dirs, files, links, pc, op, ierr, ret, seen, calls, raced, last>>

fvars == <<entries, fpc, spawned, cursor, ctxDone, queueClosed, wpc, wurl, mu, out,
           retErr, wg, failed, fret>>

vars == <<goos, krewOS, receipts, dirs, files, links, pc, op, ierr, ret, seen, calls, raced, last,
          entries, fpc, spawned, cursor, ctxDone, queueClosed, wpc, wurl, mu, out,
          retErr, wg, failed, fret>>

fs == <<receipts, dirs, files, links>>

\* ---------------------------------------------------------------- paths
\* filepath.Clean on an absolute path: "." dropped, ".." pops
RECURSIVE CleanFrom(_, _)
CleanFrom(acc, rest) ==
    IF rest = <<>> THEN acc
    ELSE IF Head(rest) = <<".">> THEN CleanFrom(acc, Tail(rest))
    ELSE IF Head(rest) = <<"..">>
         THEN CleanFrom(IF acc = <<>> THEN acc ELSE SubSeq(acc, 1, Len(acc) - 1), Tail(rest))
    ELSE CleanFrom(Append(acc, Head(rest)), Tail(rest))

\* filepath.Join: concatenate, then Clean
Join(a, b) == CleanFrom(<<>>, a \o b)

\* pathutil.IsSubPath(basePath, subPath): subPath is basePath or nested under it
IsSubPath(base, sub) ==
    /\ Len(base) <= Len(sub)
    /\ SubSeq(sub, 1, Len(base)) = base

\* environment.Paths
DownloadPath == << <<"download">> >>

PluginInstallPath(name) == << <<"store">>, name >>

PluginVersionInstallPath(name, version) == << <<"store">>, name, version >>

Under(path, set) == { x \in set : IsSubPath(path, x) }

\* ---------------------------------------------------------------- links
NoLink == [kind |-> "none", target |-> <<>>]

ForeignFile == [kind |-> "file", target |-> <<>>]

Symlink(target) == [kind |-> "symlink", target |-> target]

\* isWindows, had it looked at runtime.GOOS alone
isWindowsOfHost == goos = "windows"

isWindows ==
    LET env == krewOS
        os == IF env # "" THEN env ELSE goos
    IN os = "windows"

\* pluginNameToBin, had it left out the Windows suffix
pluginNameToBinNoSuffix(name, win) ==
    LET replaced == [i \in 1..Len(name) |-> IF name[i] = "-" THEN "_" ELSE name[i]]
    IN <<"kubectl-">> \o replaced

pluginNameToBin(name, win) ==
    LET replaced == [i \in 1..Len(name) |-> IF name[i] = "-" THEN "_" ELSE name[i]]
    IN <<"kubectl-">> \o replaced \o (IF win THEN <<".exe">> ELSE <<>>)

LinkNames == { pluginNameToBin(n, w) : n \in PluginNames, w \in BOOLEAN }

\* os.Stat(path): something is there
Exists(path) == path \in files \/ path \in dirs

\* ---------------------------------------------------------------- receipts
\* receipt.Load(p.PluginInstallReceiptPath(name)): the outcomes a load can have
LoadOutcomes(name) ==
    IF receipts[name] = NoVersion THEN {"notexist", "ioerror"} ELSE {"ok", "ioerror"}

\* ---------------------------------------------------------------- platform
\* GetMatchingPlatform: the first entry whose selector matches the target OS;
\* a selector that cannot be evaluated is an error
RECURSIVE MatchFrom(_, _, _)
MatchFrom(selectors, i, os) ==
    IF i > Len(selectors) THEN [ok |-> FALSE, err |-> Nil, index |-> 0]
    ELSE IF selectors[i] = "bad"
         THEN [ok |-> FALSE, err |-> <<"failed to compile label selector">>, index |-> 0]
    ELSE IF selectors[i] = os THEN [ok |-> TRUE, err |-> Nil, index |-> i]
    ELSE MatchFrom(selectors, i + 1, os)

GetMatchingPlatform(selectors) ==
    MatchFrom(selectors, 1, IF krewOS # "" THEN krewOS ELSE goos)

\* ---------------------------------------------------------------- processes
NoOp ==
    [ kind |-> "none", name |-> <<>>, version |-> NoVersion, selectors |-> <<>>,
      bin |-> <<>>, archive |-> {}, had |-> FALSE, pre |-> <<>>, load |-> "none" ]

\* no earlier call, or one that was killed
NoCall == [ kind |-> "none", name |-> <<>>, pre |-> <<>>, ret |-> Nil, seen |-> {} ]

\* the process keeps no record of its calls
Untracked == [ NoCall EXCEPT !.kind = "untracked" ]

\* the disk as the call found it, for a process that keeps a record
Found(p) == IF last[p] = Untracked THEN <<>> ELSE fs

\* the record of the call that returns
Returning(p) ==
    IF last[p] = Untracked THEN Untracked
    ELSE [ kind |-> op[p].kind, name |-> op[p].name, pre |-> op[p].pre,
           ret |-> ret[p], seen |-> seen[p] ]

InFlight(q) == pc[q] \notin {"idle", "done"}

LinkOf(name) == pluginNameToBin(name, isWindows)

Races(p, name) ==
    \E q \in Procs \ {p} : InFlight(q) /\ LinkOf(op[q].name) = LinkOf(name)

downloadStagingDir(p) == Join(DownloadPath, <<op[p].name>>)

installDir(p) == PluginVersionInstallPath(op[p].name, op[p].version)

\* filepath.Join(op.installDir, filepath.FromSlash(op.platform.Bin))
fullPath(p) == Join(installDir(p), op[p].bin)

Finish(p, err) ==
    /\ pc' = [pc EXCEPT ![p] = "done"]
    /\ ret' = [ret EXCEPT ![p] = err]
    /\ UNCHANGED last

Mark(p, events) == seen' = [seen EXCEPT ![p] = @ \cup events]

Goto(p, label) ==
    /\ pc' = [pc EXCEPT ![p] = label]
    /\ UNCHANGED <<ret, last>>

\* InstallLookup, had it compared the receipt's version with the manifest's
InstallLookupByVersion(p, plugin, load) ==
    LET m == GetMatchingPlatform(plugin.selectors)
    IN IF load = "ok" /\ receipts[plugin.name] = plugin.version
       THEN Finish(p, ErrIsAlreadyInstalled)
       ELSE IF load = "ioerror"
            THEN Finish(p, Wrap(<<"EIO">>, "failed to look up plugin receipt"))
       ELSE IF m.err # Nil
            THEN Finish(p, Wrap(m.err, "failed trying to find a matching platform in plugin spec"))
       ELSE IF ~m.ok
            THEN Finish(p, Wrap(m.err, "plugin does not offer installation for this platform"))
       ELSE Goto(p, "mkdir")

\* InstallLookup, had it taken every failed load for a missing receipt
InstallLookupAnyErrorAbsent(p, plugin, load) ==
    LET m == GetMatchingPlatform(plugin.selectors)
    IN IF load = "ok" THEN Finish(p, ErrIsAlreadyInstalled)
       ELSE IF m.err # Nil
            THEN Finish(p, Wrap(m.err, "failed trying to find a matching platform in plugin spec"))
       ELSE IF ~m.ok
            THEN Finish(p, Wrap(m.err, "plugin does not offer installation for this platform"))
       ELSE Goto(p, "mkdir")

\* what Install does with the receipt lookup and the platform match
InstallLookup(p, plugin, load) ==
    LET m == GetMatchingPlatform(plugin.selectors)
    IN IF load = "ok" THEN Finish(p, ErrIsAlreadyInstalled)
       ELSE IF load = "ioerror"
            THEN Finish(p, Wrap(<<"EIO">>, "failed to look up plugin receipt"))
       ELSE IF m.err # Nil
            THEN Finish(p, Wrap(m.err, "failed trying to find a matching platform in plugin spec"))
       ELSE IF ~m.ok
            THEN Finish(p, Wrap(m.err, "plugin does not offer installation for this platform"))
       ELSE Goto(p, "mkdir")

\* Install, had it taken a lock on the plugin name
InstallUnderLock(p, plugin) ==
    /\ pc[p] = "idle"
    /\ calls < MaxOps
    /\ ~\E q \in Procs \ {p} : InFlight(q) /\ op[q].name = plugin.name
    /\ calls' = calls + 1
    /\ raced' = (raced \/ Races(p, plugin.name))
    /\ seen' = [seen EXCEPT ![p] = {}]
    /\ \E load \in LoadOutcomes(plugin.name) :
         /\ op' = [op EXCEPT ![p] =
                     [ kind |-> "Install", name |-> plugin.name, version |-> plugin.version,
                       selectors |-> plugin.selectors, bin |-> plugin.bin,
                       archive |-> plugin.archive, had |-> receipts[plugin.name] # NoVersion,
                       pre |-> Found(p), load |-> load ]]
         /\ InstallLookup(p, plugin, load)
    /\ UNCHANGED <<goos, krewOS, fs, ierr>>

\* Install, up to the call of install()
Install(p, plugin) ==
    /\ pc[p] = "idle"
    /\ calls < MaxOps
    /\ calls' = calls + 1
    /\ raced' = (raced \/ Races(p, plugin.name))
    /\ seen' = [seen EXCEPT ![p] = {}]
    /\ \E load \in LoadOutcomes(plugin.name) :
         /\ op' = [op EXCEPT ![p] =
                     [ kind |-> "Install", name |-> plugin.name, version |-> plugin.version,
                       selectors |-> plugin.selectors, bin |-> plugin.bin,
                       archive |-> plugin.archive, had |-> receipts[plugin.name] # NoVersion,
                       pre |-> Found(p), load |-> load ]]
         /\ InstallLookup(p, plugin, load)
    /\ UNCHANGED <<goos, krewOS, fs, ierr>>

\* install(): os.MkdirAll(op.downloadStagingDir)
MkStaging(p) ==
    /\ pc[p] = "mkdir"
    /\ \E ok \in BOOLEAN :
         IF ok
         THEN /\ dirs' = dirs \cup {downloadStagingDir(p)}
              /\ Mark(p, {"staged"})
              /\ Goto(p, "download")
         ELSE /\ UNCHANGED <<dirs, seen>>
              /\ Finish(p, Wrap(Wrap(<<"EACCES">>, "could not create download path"),
                                "install failed"))
    /\ UNCHANGED <<goos, krewOS, receipts, files, links, op, ierr, calls, raced>>

DownloadErrors == {"ChecksumMismatch", "FetchError", "ExtractError"}

\* downloadAndExtract, had it dropped the downloader's error
downloadAndExtractDroppingError(p, outcome) ==
    /\ UNCHANGED <<files, seen, ierr>>
    /\ Goto(p, "move")

\* downloadAndExtract: fetch, verify, extract into the staging directory
downloadAndExtract(p, outcome) ==
    IF outcome = "ok"
    THEN /\ files' = files \cup { Join(downloadStagingDir(p), <<f>>) : f \in op[p].archive }
         /\ ierr' = ierr
         /\ Mark(p, {"extracted"})
         /\ Goto(p, "move")
    ELSE /\ UNCHANGED <<files, seen>>
         /\ ierr' = [ierr EXCEPT ![p] =
                       Wrap(Wrap(<<outcome>>, "failed to download and verify file"),
                            "failed to download and extract")]
         /\ Goto(p, "cleanup")

Download(p) ==
    /\ pc[p] = "download"
    /\ \E outcome \in {"ok"} \cup DownloadErrors : downloadAndExtract(p, outcome)
    /\ UNCHANGED <<goos, krewOS, receipts, dirs, links, op, calls, raced>>

\* applyDefaults + moveToInstallDir with the default file operation {*, .}:
\* every file of the staging directory moves to the install directory
moveToInstallDir(p) ==
    LET staged == Under(downloadStagingDir(p), files)
    IN /\ dirs' = dirs \cup {installDir(p)}
       /\ files' = (files \ staged) \cup { Join(installDir(p), <<f[Len(f)]>>) : f \in staged }

\* the path safety guard of install(): its error value
guardErr(p) ==
    LET subPathAbs == installDir(p)
        pathAbs == fullPath(p)
        err == Nil    \* filepath.Abs succeeded
    IN IF ~IsSubPath(subPathAbs, pathAbs)
       THEN [failed |-> TRUE, err |-> Wrap(err, "the fullPath does not extend the sub-fullPath")]
       ELSE [failed |-> FALSE, err |-> Nil]

\* install(): applyDefaults, moveToInstallDir, then the path safety guard
Move(p) ==
    /\ pc[p] = "move"
    /\ \E outcome \in {"ok", "failed"} :
         IF outcome = "ok"
         THEN /\ moveToInstallDir(p)
              /\ ierr' = [ierr EXCEPT ![p] = guardErr(p).err]
              /\ Mark(p, IF guardErr(p).failed THEN {"moved"} ELSE {"moved", "guarded"})
              /\ Goto(p, IF guardErr(p).failed THEN "cleanup" ELSE "linkrm")
         ELSE /\ UNCHANGED <<dirs, files, seen>>
              /\ ierr' = [ierr EXCEPT ![p] =
                            Wrap(<<"EIO">>, "failed while moving files to the installation directory")]
              /\ Goto(p, "cleanup")
    /\ UNCHANGED <<goos, krewOS, receipts, links, op, calls, raced>>

\* removeLink, had it not looked at the entry's mode
removeLinkAnyEntry(l) ==
    { [link |-> links[l], err |-> <<"failed to read the symlink", "EIO">>] } \cup
    ( IF links[l].kind = "none" THEN { [link |-> NoLink, err |-> Nil] }
      ELSE { [link |-> NoLink, err |-> Nil],
             [link |-> links[l], err |-> <<"failed to remove the symlink", "EPERM">>] } )

\* removeLink(path): the entry left at the path and the error returned
removeLink(l) ==
    { [link |-> links[l], err |-> <<"failed to read the symlink", "EIO">>] } \cup
    ( IF links[l].kind = "none" THEN { [link |-> NoLink, err |-> Nil] }
      ELSE IF links[l].kind # "symlink"
           THEN { [link |-> links[l], err |-> <<"file is not a symlink">>] }
      ELSE { [link |-> NoLink, err |-> Nil],
             [link |-> links[l], err |-> <<"failed to remove the symlink", "EPERM">>] } )

\* createOrUpdateLink: removeLink(dst)
LinkRemove(p) ==
    /\ pc[p] = "linkrm"
    /\ \E r \in removeLink(LinkOf(op[p].name)) :
         /\ links' = [links EXCEPT ![LinkOf(op[p].name)] = r.link]
         /\ ierr' = [ierr EXCEPT ![p] =
                       Wrap(Wrap(r.err, "failed to remove old symlink"),
                            "failed to link installed plugin")]
         /\ Mark(p, IF r.err # Nil THEN {"linkpath"} ELSE {"linkpath", "unlinked"})
         /\ Goto(p, IF r.err # Nil THEN "cleanup" ELSE "linkstat")
    /\ UNCHANGED <<goos, krewOS, receipts, dirs, files, op, calls, raced>>

\* LinkStat, had createOrUpdateLink not looked at what os.Stat returned
LinkStatIgnored(p) ==
    /\ pc[p] = "linkstat"
    /\ UNCHANGED ierr
    /\ Mark(p, {"statted"})
    /\ Goto(p, "symlink")
    /\ UNCHANGED <<goos, krewOS, fs, op, calls, raced>>

\* createOrUpdateLink: os.Stat(binary)
LinkStat(p) ==
    /\ pc[p] = "linkstat"
    /\ IF ~Exists(fullPath(p))
       THEN /\ ierr' = [ierr EXCEPT ![p] =
                          Wrap(Wrap(<<"ENOENT">>, "can't create symbolic link, source binary cannot be found in extracted archive"),
                               "failed to link installed plugin")]
            /\ UNCHANGED seen
            /\ Goto(p, "cleanup")
       ELSE /\ UNCHANGED ierr
            /\ Mark(p, {"statted"})
            /\ Goto(p, "symlink")
    /\ UNCHANGED <<goos, krewOS, fs, op, calls, raced>>

\* os.Symlink(binary, dst): fails when something is at dst, or for the OS's reasons
symlinkOutcomes(l, binary) ==
    { [link |-> links[l], err |-> <<"EPERM">>] } \cup
    ( IF links[l].kind # "none" THEN { [link |-> links[l], err |-> <<"EEXIST">>] }
      ELSE { [link |-> Symlink(binary), err |-> Nil] } )

\* createOrUpdateLink: os.Symlink(binary, dst)
LinkCreate(p) ==
    /\ pc[p] = "symlink"
    /\ \E r \in symlinkOutcomes(LinkOf(op[p].name), fullPath(p)) :
         /\ links' = [links EXCEPT ![LinkOf(op[p].name)] = r.link]
         /\ ierr' = [ierr EXCEPT ![p] =
                       Wrap(Wrap(r.err, "failed to create a symlink"),
                            "failed to link installed plugin")]
         /\ Mark(p, IF r.err = Nil THEN {"symlinked"} ELSE {})
    /\ Goto(p, "cleanup")
    /\ UNCHANGED <<goos, krewOS, receipts, dirs, files, op, calls, raced>>

\* os.RemoveAll(path): everything at and below path goes
RemoveAll(path, set) == set \ Under(path, set)

\* Cleanup, had the removal not been deferred: it runs on the success path only
CleanupNotDeferred(p) ==
    /\ pc[p] = "cleanup"
    /\ \E ok \in BOOLEAN :
         IF ierr[p] # Nil
         THEN UNCHANGED <<dirs, files, seen>>
         ELSE IF ok
         THEN /\ dirs' = (dirs \ Under(downloadStagingDir(p), dirs))
              /\ files' = (files \ Under(downloadStagingDir(p), files))
              /\ Mark(p, {"cleaned"})
         ELSE /\ UNCHANGED <<dirs, files>>
              /\ Mark(p, {"warned"})
    /\ ierr' = [ierr EXCEPT ![p] = Nil]
    /\ IF ierr[p] # Nil THEN Finish(p, Wrap(ierr[p], "install failed")) ELSE Goto(p, "store")
    /\ UNCHANGED <<goos, krewOS, receipts, links, op, calls, raced>>

\* install()'s deferred cleanup of the staging directory, then its return to Install
Cleanup(p) ==
    /\ pc[p] = "cleanup"
    /\ \E ok \in BOOLEAN :
         IF ok
         THEN /\ dirs' = RemoveAll(downloadStagingDir(p), dirs)
              /\ files' = RemoveAll(downloadStagingDir(p), files)
              /\ Mark(p, {"cleaned"})
         ELSE /\ UNCHANGED <<dirs, files>>
              /\ Mark(p, {"warned"})    \* glog.Warningf, nothing else
    /\ ierr' = [ierr EXCEPT ![p] = Nil]
    /\ IF ierr[p] # Nil THEN Finish(p, Wrap(ierr[p], "install failed")) ELSE Goto(p, "store")
    /\ UNCHANGED <<goos, krewOS, receipts, links, op, calls, raced>>

\* Store, had a failed store left a readable receipt
StoreLeavingReceipt(p) ==
    /\ pc[p] = "store"
    /\ \E err \in {Nil, <<"EIO">>} :
         /\ receipts' = [receipts EXCEPT ![op[p].name] = op[p].version]
         /\ Mark(p, IF err = Nil THEN {"stored"} ELSE {})
         /\ Finish(p, Wrap(err, "installation receipt could not be stored, uninstall may fail"))
    /\ UNCHANGED <<goos, krewOS, dirs, files, links, op, ierr, calls, raced>>

\* Install: receipt.Store(plugin, p.PluginInstallReceiptPath(plugin.Name))
Store(p) ==
    /\ pc[p] = "store"
    /\ \E err \in {Nil, <<"EIO">>} :
         /\ receipts' = IF err = Nil THEN [receipts EXCEPT ![op[p].name] = op[p].version]
                        ELSE receipts
         /\ Mark(p, IF err = Nil THEN {"stored"} ELSE {})
         /\ Finish(p, Wrap(err, "installation receipt could not be stored, uninstall may fail"))
    /\ UNCHANGED <<goos, krewOS, dirs, files, links, op, ierr, calls, raced>>

\* UninstallLookup, had it not set the reserved name apart
UninstallLookupAnyName(p, name, load) ==
    IF load = "notexist" THEN Finish(p, ErrIsNotInstalled)
    ELSE IF load = "ioerror"
         THEN Finish(p, Wrap(<<"EIO">>, "failed to look up install receipt for plugin"))
    ELSE Goto(p, "unlink")

\* UninstallLookup, had it gone on without a receipt
UninstallLookupWithoutReceipt(p, name, load) ==
    IF name = krewPluginName THEN Finish(p, ErrSelfUninstall)
    ELSE IF load = "ioerror"
         THEN Finish(p, Wrap(<<"EIO">>, "failed to look up install receipt for plugin"))
    ELSE Goto(p, "unlink")

\* what Uninstall does with the reserved name and the receipt lookup
UninstallLookup(p, name, load) ==
    IF name = krewPluginName THEN Finish(p, ErrSelfUninstall)
    ELSE IF load = "notexist" THEN Finish(p, ErrIsNotInstalled)
    ELSE IF load = "ioerror"
         THEN Finish(p, Wrap(<<"EIO">>, "failed to look up install receipt for plugin"))
    ELSE Goto(p, "unlink")

\* the outcomes of Uninstall's receipt.Load: none for krew, whose receipt is
\* never loaded
UninstallLoads(name) == IF name = krewPluginName THEN {"none"} ELSE LoadOutcomes(name)

\* Uninstall, up to the removal of the symlink
Uninstall(p, name) ==
    /\ pc[p] = "idle"
    /\ calls < MaxOps
    /\ calls' = calls + 1
    /\ raced' = (raced \/ Races(p, name))
    /\ seen' = [seen EXCEPT ![p] = {}]
    /\ \E load \in UninstallLoads(name) :
         /\ op' = [op EXCEPT ![p] =
                     [NoOp EXCEPT !.kind = "Uninstall", !.name = name,
                                  !.had = receipts[name] # NoVersion, !.pre = Found(p),
                                  !.load = load]]
         /\ UninstallLookup(p, name, load)
    /\ UNCHANGED <<goos, krewOS, fs, ierr>>

\* Unlink, had the symlink been left in place
UnlinkKeepingLink(p) ==
    /\ pc[p] = "unlink"
    /\ Mark(p, {"linkpath", "unlinked"})
    /\ Goto(p, "rmdir")
    /\ UNCHANGED <<goos, krewOS, fs, op, ierr, calls, raced>>

\* Unlink, had Uninstall gone on after a failed removeLink
UnlinkGoingOn(p) ==
    /\ pc[p] = "unlink"
    /\ \E r \in removeLink(LinkOf(op[p].name)) :
         /\ links' = [links EXCEPT ![LinkOf(op[p].name)] = r.link]
         /\ Mark(p, IF r.err # Nil THEN {"linkpath"} ELSE {"linkpath", "unlinked"})
         /\ Goto(p, "rmdir")
    /\ UNCHANGED <<goos, krewOS, receipts, dirs, files, op, ierr, calls, raced>>

\* Uninstall: removeLink(symlinkPath)
Unlink(p) ==
    /\ pc[p] = "unlink"
    /\ \E r \in removeLink(LinkOf(op[p].name)) :
         /\ links' = [links EXCEPT ![LinkOf(op[p].name)] = r.link]
         /\ Mark(p, IF r.err # Nil THEN {"linkpath"} ELSE {"linkpath", "unlinked"})
         /\ IF r.err # Nil
            THEN Finish(p, Wrap(r.err, "could not uninstall symlink of plugin"))
            ELSE Goto(p, "rmdir")
    /\ UNCHANGED <<goos, krewOS, receipts, dirs, files, op, ierr, calls, raced>>

\* RemoveInstallDir, had it removed the files and left the directories
RemoveInstallDirFilesOnly(p) ==
    /\ pc[p] = "rmdir"
    /\ \E ok \in BOOLEAN :
         IF ok
         THEN /\ files' = RemoveAll(PluginInstallPath(op[p].name), files)
              /\ UNCHANGED dirs
              /\ Mark(p, {"rmdir"})
              /\ Goto(p, "rmreceipt")
         ELSE /\ UNCHANGED <<dirs, files, seen>>
              /\ Finish(p, Wrap(<<"EPERM">>, "could not remove plugin directory"))
    /\ UNCHANGED <<goos, krewOS, receipts, links, op, ierr, calls, raced>>

\* Uninstall: os.RemoveAll(p.PluginInstallPath(name))
RemoveInstallDir(p) ==
    /\ pc[p] = "rmdir"
    /\ \E ok \in BOOLEAN :
         IF ok
         THEN /\ dirs' = RemoveAll(PluginInstallPath(op[p].name), dirs)
              /\ files' = RemoveAll(PluginInstallPath(op[p].name), files)
              /\ Mark(p, {"rmdir"})
              /\ Goto(p, "rmreceipt")
         ELSE /\ UNCHANGED <<dirs, files, seen>>
              /\ Finish(p, Wrap(<<"EPERM">>, "could not remove plugin directory"))
    /\ UNCHANGED <<goos, krewOS, receipts, links, op, ierr, calls, raced>>

\* os.Remove(pluginReceiptPath): its error values
removeReceiptErrors(name) ==
    IF receipts[name] = NoVersion THEN { <<"ENOENT">> } ELSE { Nil, <<"EPERM">> }

\* Uninstall: os.Remove(pluginReceiptPath)
RemoveReceipt(p) ==
    /\ pc[p] = "rmreceipt"
    /\ \E err \in removeReceiptErrors(op[p].name) :
         /\ receipts' = IF err = Nil THEN [receipts EXCEPT ![op[p].name] = NoVersion]
                        ELSE receipts
         /\ Mark(p, IF err = Nil THEN {"rmreceipt"} ELSE {})
         /\ Finish(p, Wrap(err, "could not remove plugin receipt"))
    /\ UNCHANGED <<goos, krewOS, dirs, files, links, op, ierr, calls, raced>>

\* the caller has the result; the process is ready for its next call
Return(p) ==
    /\ pc[p] = "done"
    /\ pc' = [pc EXCEPT ![p] = "idle"]
    /\ op' = [op EXCEPT ![p] = NoOp]
    /\ ret' = [ret EXCEPT ![p] = Nil]
    /\ seen' = [seen EXCEPT ![p] = {}]
    /\ last' = [last EXCEPT ![p] = Returning(p)]
    /\ UNCHANGED <<goos, krewOS, fs, ierr, calls, raced>>

\* the process is killed between two steps: nothing deferred runs
Interrupt(p) ==
    /\ InFlight(p)
    /\ pc' = [pc EXCEPT ![p] = "idle"]
    /\ op' = [op EXCEPT ![p] = NoOp]
    /\ ierr' = [ierr EXCEPT ![p] = Nil]
    /\ seen' = [seen EXCEPT ![p] = {}]
    /\ last' = [last EXCEPT ![p] = IF last[p] = Untracked THEN Untracked ELSE NoCall]
    /\ UNCHANGED <<goos, krewOS, fs, ret, calls, raced>>

\* ---------------------------------------------------------------- specification
\* fetchPlugins is not running
NoFetch ==
    /\ entries = 0
    /\ fpc = "none"
    /\ spawned = 0
    /\ cursor = 1
    /\ ctxDone = FALSE
    /\ queueClosed = FALSE
    /\ wpc = [w \in Workers |-> "unborn"]
    /\ wurl = [w \in Workers |-> 0]
    /\ mu = 0
    /\ out = <<>>
    /\ retErr = 0
    /\ wg = 0
    /\ failed = {}
    /\ fret = <<>>

\* a fresh krew home in one of the given environments; the bin directory may
\* hold one file krew did not put there
InitIn(envs, record) ==
    /\ NoFetch
    /\ \E e \in envs : goos = e[1] /\ krewOS = e[2]
    /\ receipts = [n \in PluginNames |-> NoVersion]
    /\ dirs = {}
    /\ files = {}
    /\ \E foreign \in {{}, {LinkOf(Foo)}} :
         links = [l \in LinkNames |-> IF l \in foreign THEN ForeignFile ELSE NoLink]
    /\ pc = [p \in Procs |-> "idle"]
    /\ op = [p \in Procs |-> NoOp]
    /\ ierr = [p \in Procs |-> Nil]
    /\ ret = [p \in Procs |-> Nil]
    /\ seen = [p \in Procs |-> {}]
    /\ calls = 0
    /\ raced = FALSE
    /\ last = [p \in Procs |-> record]

Init == InitIn(Envs, NoCall)

\* one step of process p, its calls drawn from the given manifests and names
Step(p, plugins, names) ==
    /\ UNCHANGED fvars
    /\ \/ \E plugin \in plugins : Install(p, plugin)
       \/ MkStaging(p)
       \/ Download(p)
       \/ Move(p)
       \/ LinkRemove(p)
       \/ LinkStat(p)
       \/ LinkCreate(p)
       \/ Cleanup(p)
       \/ Store(p)
       \/ \E name \in names : Uninstall(p, name)
       \/ Unlink(p)
       \/ RemoveInstallDir(p)
       \/ RemoveReceipt(p)
       \/ Return(p)
       \/ Interrupt(p)

\* one caller: each call returns (or is killed) before the next begins
Next == Step(1, Plugins, PluginNames)

Spec == Init /\ [][Next]_vars

\* two callers, interleaved step by step, installing well-formed manifests of
\* two names that share a link path and of one that does not
RaceNames == { <<"a", "-", "b">>, <<"a", "_", "b">>, Foo }

RacePlugins == { Manifest(n, <<"v", 1>>, EveryOS, InsideBin, {BinFile}) : n \in RaceNames }

RaceNext == \E p \in Procs : Step(p, RacePlugins, RaceNames)

\* the callers keep no record of their earlier calls
RaceInit == InitIn(Envs, Untracked)

RaceSpec == RaceInit /\ [][RaceNext]_vars

\* one caller under every pairing of host OS and KREW_OS override, installing
\* and uninstalling well-formed manifests
NameEnvs == { <<g, e>> : g \in {"linux", "windows"}, e \in {"", "linux", "windows"} }

NameInit == InitIn(NameEnvs, Untracked)

NameNext == Step(1, RacePlugins, RaceNames)

NameSpec == NameInit /\ [][NameNext]_vars

\* ---------------------------------------------------------------- fetchPlugins
\* retErr after two unsynchronized writes overlapped: an interface value made of
\* parts of both errors, not nil
Torn == MaxEntries + 1

\* the worker goroutine returns; its deferred wg.Done() runs
WorkerReturn(w) ==
    /\ wpc' = [wpc EXCEPT ![w] = "exited"]
    /\ wg' = wg - 1

\* for i := 0; i < urlFetchBatchSize; i++ { wg.Add(1); go func(j int) {...}(i) }
Spawn ==
    /\ fpc = "spawn"
    /\ spawned < urlFetchBatchSize
    /\ spawned' = spawned + 1
    /\ wg' = wg + 1
    /\ wpc' = [wpc EXCEPT ![spawned + 1] = "select"]
    /\ fpc' = IF spawned + 1 = urlFetchBatchSize THEN "loop" ELSE "spawn"
    /\ UNCHANGED <<entries, cursor, ctxDone, queueClosed, wurl, mu, out, retErr, failed, fret>>
    /\ UNCHANGED ivars

\* the producer's case queue <- url, met by worker w's case url, ok := <-queue
ProduceSend(w) ==
    /\ fpc = "loop"
    /\ cursor <= entries
    /\ wpc[w] = "select"
    /\ wurl' = [wurl EXCEPT ![w] = cursor]
    /\ wpc' = [wpc EXCEPT ![w] = "read"]
    /\ cursor' = cursor + 1
    /\ UNCHANGED <<entries, fpc, spawned, ctxDone, queueClosed, mu, out, retErr, wg, failed, fret>>
    /\ UNCHANGED ivars

\* the producer's case <-ctx.Done(): break leaves the select, the loop goes on
\* with the next entry
ProduceSkip ==
    /\ fpc = "loop"
    /\ cursor <= entries
    /\ ctxDone
    /\ cursor' = cursor + 1
    /\ UNCHANGED <<entries, fpc, spawned, ctxDone, queueClosed, wpc, wurl, mu, out, retErr,
                   wg, failed, fret>>
    /\ UNCHANGED ivars

\* the range loop is over: close(queue)
CloseQueue ==
    /\ fpc = "loop"
    /\ cursor > entries
    /\ queueClosed' = TRUE
    /\ fpc' = "wait"
    /\ UNCHANGED <<entries, spawned, cursor, ctxDone, wpc, wurl, mu, out, retErr, wg, failed, fret>>
    /\ UNCHANGED ivars

\* WaitAndReturn, had fetchPlugins not waited for the workers
ReturnWithoutWait ==
    /\ fpc = "wait"
    /\ fpc' = "returned"
    /\ fret' = <<out, retErr>>
    /\ ctxDone' = TRUE
    /\ UNCHANGED <<entries, spawned, cursor, queueClosed, wpc, wurl, mu, out, retErr, wg, failed>>
    /\ UNCHANGED ivars

\* wg.Wait(); return out, retErr; the deferred cancel() runs
WaitAndReturn ==
    /\ fpc = "wait"
    /\ wg = 0
    /\ fpc' = "returned"
    /\ fret' = <<out, retErr>>
    /\ ctxDone' = TRUE
    /\ UNCHANGED <<entries, spawned, cursor, queueClosed, wpc, wurl, mu, out, retErr, wg, failed>>
    /\ UNCHANGED ivars

\* worker: case <-ctx.Done(): return
WorkerDone(w) ==
    /\ wpc[w] = "select"
    /\ ctxDone
    /\ WorkerReturn(w)
    /\ UNCHANGED <<entries, fpc, spawned, cursor, ctxDone, queueClosed, wurl, mu, out, retErr,
                   failed, fret>>
    /\ UNCHANGED ivars

\* worker: case url, ok := <-queue with the queue closed: if !ok { return }
WorkerClosed(w) ==
    /\ wpc[w] = "select"
    /\ queueClosed
    /\ WorkerReturn(w)
    /\ UNCHANGED <<entries, fpc, spawned, cursor, ctxDone, queueClosed, wurl, mu, out, retErr,
                   failed, fret>>
    /\ UNCHANGED ivars

\* worker: p, err := readPlugin(url)
ReadPlugin(w) ==
    /\ wpc[w] = "read"
    /\ \E ok \in BOOLEAN :
         IF ok
         THEN /\ wpc' = [wpc EXCEPT ![w] = "lock"]
              /\ UNCHANGED failed
         ELSE /\ wpc' = [wpc EXCEPT ![w] = "seterr"]
              /\ failed' = failed \cup {wurl[w]}
    /\ UNCHANGED <<entries, fpc, spawned, cursor, ctxDone, queueClosed, wurl, mu, out, retErr,
                   wg, fret>>
    /\ UNCHANGED ivars

\* the values a write of retErr by worker w can leave: its error, or a torn
\* value when another worker is at the same unsynchronized write
retErrWritten(w) ==
    {wurl[w]} \cup
    (IF \E v \in Workers \ {w} : wpc[v] = "seterr" THEN {Torn} ELSE {})

\* worker: retErr = err
SetErr(w) ==
    /\ wpc[w] = "seterr"
    /\ \E e \in retErrWritten(w) : retErr' = e
    /\ wpc' = [wpc EXCEPT ![w] = "cancel"]
    /\ UNCHANGED <<entries, fpc, spawned, cursor, ctxDone, queueClosed, wurl, mu, out, wg,
                   failed, fret>>
    /\ UNCHANGED ivars

\* Cancel, had the failing worker returned without cancel()
CancelLeftOut(w) ==
    /\ wpc[w] = "cancel"
    /\ WorkerReturn(w)
    /\ UNCHANGED <<entries, fpc, spawned, cursor, ctxDone, queueClosed, wurl, mu, out, retErr,
                   failed, fret>>
    /\ UNCHANGED ivars

\* worker: cancel(); return
Cancel(w) ==
    /\ wpc[w] = "cancel"
    /\ ctxDone' = TRUE
    /\ WorkerReturn(w)
    /\ UNCHANGED <<entries, fpc, spawned, cursor, queueClosed, wurl, mu, out, retErr, failed, fret>>
    /\ UNCHANGED ivars

\* worker: mu.Lock()
Lock(w) ==
    /\ wpc[w] = "lock"
    /\ mu = 0
    /\ mu' = w
    /\ wpc' = [wpc EXCEPT ![w] = "append"]
    /\ UNCHANGED <<entries, fpc, spawned, cursor, ctxDone, queueClosed, wurl, out, retErr, wg,
                   failed, fret>>
    /\ UNCHANGED ivars

\* worker: out = append(out, p)
AppendOut(w) ==
    /\ wpc[w] = "append"
    /\ out' = Append(out, wurl[w])
    /\ wpc' = [wpc EXCEPT ![w] = "unlock"]
    /\ UNCHANGED <<entries, fpc, spawned, cursor, ctxDone, queueClosed, wurl, mu, retErr, wg,
                   failed, fret>>
    /\ UNCHANGED ivars

\* worker: mu.Unlock(), and back to the select
Unlock(w) ==
    /\ wpc[w] = "unlock"
    /\ mu' = 0
    /\ wpc' = [wpc EXCEPT ![w] = "select"]
    /\ UNCHANGED <<entries, fpc, spawned, cursor, ctxDone, queueClosed, wurl, out, retErr, wg,
                   failed, fret>>
    /\ UNCHANGED ivars

\* fetchPlugins is called with 0..MaxEntries entries; the installer is idle
FetchInit ==
    /\ goos = "linux" /\ krewOS = ""
    /\ receipts = [n \in PluginNames |-> NoVersion]
    /\ dirs = {}
    /\ files = {}
    /\ links = [l \in LinkNames |-> NoLink]
    /\ pc = [p \in Procs |-> "idle"]
    /\ op = [p \in Procs |-> NoOp]
    /\ ierr = [p \in Procs |-> Nil]
    /\ ret = [p \in Procs |-> Nil]
    /\ seen = [p \in Procs |-> {}]
    /\ calls = 0
    /\ raced = FALSE
    /\ last = [p \in Procs |-> Untracked]
    /\ entries \in 0..MaxEntries
    /\ fpc = "spawn"
    /\ spawned = 0
    /\ cursor = 1
    /\ ctxDone = FALSE
    /\ queueClosed = FALSE
    /\ wpc = [w \in Workers |-> "unborn"]
    /\ wurl = [w \in Workers |-> 0]
    /\ mu = 0
    /\ out = <<>>
    /\ retErr = 0
    /\ wg = 0
    /\ failed = {}
    /\ fret = <<>>

FetchNext ==
    \/ Spawn
    \/ \E w \in Workers : ProduceSend(w)
    \/ ProduceSkip
    \/ CloseQueue
    \/ WaitAndReturn
    \/ \E w \in Workers : WorkerDone(w)
    \/ \E w \in Workers : WorkerClosed(w)
    \/ \E w \in Workers : ReadPlugin(w)
    \/ \E w \in Workers : SetErr(w)
    \/ \E w \in Workers : Cancel(w)
    \/ \E w \in Workers : Lock(w)
    \/ \E w \in Workers : AppendOut(w)
    \/ \E w \in Workers : Unlock(w)

\* every goroutine that can run does run in the end (the Go scheduler), and
\* readPlugin returns
FetchSpec == FetchInit /\ [][FetchNext]_vars /\ WF_vars(FetchNext)

\* ---------------------------------------------------------------- claims
Returned(p, kind) == pc[p] = "done" /\ op[p].kind = kind

LinkEntry(name) == links[LinkOf(name)]

LookupFailed == Wrap(<<"EIO">>, "failed to look up plugin receipt")

\* C1: an Install of a manifest whose bin resolves outside the install
\* directory returns a non-nil error and creates no symlink.
C1_PathTraversalRejected ==
    \A p \in Procs :
        (Returned(p, "Install") /\ ~IsSubPath(installDir(p), fullPath(p)))
            => (ret[p] # Nil /\ "symlinked" \notin seen[p])

\* C2: an Install of a manifest none of whose platform entries matches (the
\* matcher reporting no error) returns a non-nil error and creates nothing.
C2_UnsupportedPlatformRejected ==
    \A p \in Procs :
        LET m == GetMatchingPlatform(op[p].selectors)
        IN (Returned(p, "Install") /\ ~m.ok /\ m.err = Nil)
               => (ret[p] # Nil /\ seen[p] = {})

\* C3: when Install has returned and the plugin's receipt exists though it did
\* not before the call, a symlink is at the plugin's link path and its target
\* is a file under the plugin's install directory.
C3_ReceiptOnlyAfterEveryStep ==
    \A p \in Procs :
        (Returned(p, "Install") /\ ~op[p].had /\ receipts[op[p].name] # NoVersion)
            => /\ LinkEntry(op[p].name).kind = "symlink"
               /\ IsSubPath(installDir(p), LinkEntry(op[p].name).target)
               /\ LinkEntry(op[p].name).target \in files

\* C4 (as claimed): when an Install that created its staging directory has
\* returned, the staging directory does not exist, whatever failed, the
\* cleanup included.
C4_StagingGoneOnEveryOutcome ==
    \A p \in Procs :
        (Returned(p, "Install") /\ "staged" \in seen[p])
            => downloadStagingDir(p) \notin dirs

\* C4 (amended): when an Install that created its staging directory has
\* returned, the deferred os.RemoveAll has run whatever step failed, and the
\* staging directory does not exist unless that RemoveAll itself failed (then
\* only a warning was logged).
C4_StagingGoneUnlessCleanupFailed ==
    \A p \in Procs :
        (Returned(p, "Install") /\ "staged" \in seen[p])
            => /\ "cleaned" \in seen[p] \/ "warned" \in seen[p]
               /\ "warned" \notin seen[p] => downloadStagingDir(p) \notin dirs

C4_Witness ==
    \E p \in Procs :
        /\ Returned(p, "Install")
        /\ {"staged", "moved", "cleaned"} \subseteq seen[p]
        /\ ret[p] # Nil
        /\ downloadStagingDir(p) \notin dirs

\* C5: when Install has returned an error after the files were moved into the
\* install directory, the versioned install directory does not exist.
C5_NoInstallDirAfterFailure ==
    \A p \in Procs :
        (Returned(p, "Install") /\ "moved" \in seen[p] /\ ret[p] # Nil)
            => installDir(p) \notin dirs

\* C6: in every state, a plugin that has a receipt has the install directory of
\* the version the receipt records.
C6_ReceiptImpliesInstallDir ==
    \A n \in PluginNames :
        receipts[n] # NoVersion => PluginVersionInstallPath(n, receipts[n]) \in dirs

NoDanglingLink ==
    \A l \in LinkNames : links[l].kind = "symlink" => links[l].target \in files

Exposes(b) ==
    /\ receipts[b] # NoVersion
    /\ LinkEntry(b).kind = "symlink"
    /\ IsSubPath(PluginInstallPath(b), LinkEntry(b).target)

\* C8: no step of a call on plugin name a changes the receipt, the install
\* directories or the exposing symlink of another plugin name b.
C8_OtherPluginsUntouched ==
    [][ \A p \in Procs, b \in PluginNames :
          (InFlight(p) /\ pc'[p] # pc[p] /\ op[p].name # b)
              => /\ receipts'[b] = receipts[b]
                 /\ Under(PluginInstallPath(b), dirs') = Under(PluginInstallPath(b), dirs)
                 /\ Under(PluginInstallPath(b), files') = Under(PluginInstallPath(b), files)
                 /\ Exposes(b) => links'[LinkOf(b)] = links[LinkOf(b)] ]_vars

\* C9: an Install of a plugin whose receipt exists and is readable returns
\* ErrIsAlreadyInstalled at once, whatever version the manifest carries, and
\* changes nothing on disk.
C9_AlreadyInstalledChangesNothing ==
    [][ \A p \in Procs :
          ( /\ pc[p] = "idle"
            /\ op'[p].kind = "Install"
            /\ receipts[op'[p].name] # NoVersion
            /\ ret'[p] # LookupFailed )
              => /\ pc'[p] = "done"
                 /\ ret'[p] = ErrIsAlreadyInstalled
                 /\ fs' = fs ]_vars

C9_Witness ==
    \E p \in Procs :
        /\ Returned(p, "Install")
        /\ ret[p] = ErrIsAlreadyInstalled
        /\ receipts[op[p].name] # NoVersion
        /\ receipts[op[p].name] # op[p].version

\* C10: an entry at a link path that is not a symlink is never removed or
\* replaced, and a call that reached such a link path returns an error.
C10_ForeignFileKept ==
    [][ /\ \A l \in LinkNames : links[l].kind = "file" => links'[l] = links[l]
        /\ \A p \in Procs :
             ( /\ pc[p] # "done"
               /\ pc'[p] = "done"
               /\ "linkpath" \in seen'[p]
               /\ LinkEntry(op[p].name).kind = "file" )
                 => ret'[p] # Nil ]_vars

C10_Witness ==
    \E p \in Procs :
        /\ Returned(p, "Install")
        /\ "linkpath" \in seen[p]
        /\ LinkEntry(op[p].name) = ForeignFile
        /\ ret[p] # Nil

\* nothing of plugin name n is in the disk state d: no receipt, no symlink at
\* its link path, no staging directory, no install directory
FreshIn(d, n) ==
    /\ d[1][n] = NoVersion
    /\ d[4][LinkOf(n)].kind # "symlink"
    /\ Join(DownloadPath, <<n>>) \notin d[2]
    /\ Under(PluginInstallPath(n), d[2]) = {}

\* process p's Uninstall has returned nil, and its call before that was an
\* Install of the same name that returned nil and had found nothing of the name
InstalledThenUninstalled(p) ==
    /\ Returned(p, "Uninstall")
    /\ ret[p] = Nil
    /\ last[p].kind = "Install"
    /\ last[p].name = op[p].name
    /\ last[p].ret = Nil
    /\ FreshIn(last[p].pre, op[p].name)

NothingInstalled(n) ==
    /\ receipts[n] = NoVersion
    /\ LinkEntry(n).kind # "symlink"
    /\ Under(PluginInstallPath(n), dirs) = {}

\* C11 (as claimed): after a successful Install of a plugin of which nothing
\* was on disk and a successful Uninstall of its name, the plugin has no
\* receipt, no symlink and no install directory, and the disk state equals the
\* state before the Install.
C11_InstallUninstallRestores ==
    \A p \in Procs :
        InstalledThenUninstalled(p)
            => (NothingInstalled(op[p].name) /\ fs = last[p].pre)

\* C11 (amended): after a successful Install of a plugin of which nothing was
\* on disk and a successful Uninstall of its name, the plugin has no receipt,
\* no symlink and no install directory, and the disk state equals the state
\* before the Install except that the plugin's empty staging directory is
\* left when the Install's deferred cleanup failed.
C11_InstallUninstallRestoresButStaging ==
    \A p \in Procs :
        InstalledThenUninstalled(p)
            => LET staging == downloadStagingDir(p)
               IN /\ NothingInstalled(op[p].name)
                  /\ receipts = last[p].pre[1]
                  /\ links = last[p].pre[4]
                  /\ files = last[p].pre[3]
                  /\ dirs \ {staging} = last[p].pre[2]
                  /\ "warned" \notin last[p].seen => fs = last[p].pre

C11_Witness ==
    \E p \in Procs :
        /\ InstalledThenUninstalled(p)
        /\ "symlinked" \in last[p].seen
        /\ "warned" \notin last[p].seen
        /\ fs = last[p].pre

\* every step of process p's Install has succeeded
EveryStepSucceeded(p) ==
    /\ Returned(p, "Install")
    /\ {"staged", "extracted", "moved", "guarded", "unlinked", "statted",
        "symlinked", "stored"} \subseteq seen[p]

\* process p installs foo with bin foo from an archive that holds foo, a
\* platform entry matches and foo had no receipt
InstallsFoo(p) ==
    /\ op[p].kind = "Install"
    /\ op[p].name = Foo
    /\ ~op[p].had
    /\ GetMatchingPlatform(op[p].selectors).ok
    /\ op[p].bin = InsideBin
    /\ op[p].archive = {BinFile}

\* a symlink of the given name points at the foo binary in p's install
\* directory, and foo's receipt is stored
FooPublishedAs(p, linkName) ==
    /\ linkName \in DOMAIN links
    /\ links[linkName] = Symlink(<< <<"store">>, Foo, op[p].version, BinFile >>)
    /\ links[linkName].target \in files
    /\ receipts[Foo] = op[p].version

\* C12 (as claimed): when every step of such an Install of foo succeeds, it
\* returns nil, a symlink named kubectl-foo, or kubectl_foo.exe on the Windows
\* target, points at the foo binary in the install directory, and the receipt
\* is stored.
C12_FooLinkedWithUnderscoreExe ==
    \A p \in Procs :
        (InstallsFoo(p) /\ EveryStepSucceeded(p))
            => /\ ret[p] = Nil
               /\ FooPublishedAs(p, IF isWindows
                                     THEN <<"kubectl_", "f", "o", "o", ".exe">>
                                     ELSE <<"kubectl-", "f", "o", "o">>)

\* C12 (amended): the same, the link on the Windows target being named
\* kubectl-foo.exe.
C12_FooLinked ==
    \A p \in Procs :
        (InstallsFoo(p) /\ EveryStepSucceeded(p))
            => /\ ret[p] = Nil
               /\ FooPublishedAs(p, IF isWindows
                                     THEN <<"kubectl-", "f", "o", "o", ".exe">>
                                     ELSE <<"kubectl-", "f", "o", "o">>)

C12_Witness ==
    \E p \in Procs :
        /\ InstallsFoo(p)
        /\ EveryStepSucceeded(p)
        /\ isWindows
        /\ links[<<"kubectl-", "f", "o", "o", ".exe">>].kind = "symlink"

\* process p begins an Uninstall of the given name in this step
BeginsUninstall(p, name) ==
    /\ pc[p] = "idle"
    /\ op'[p].kind = "Uninstall"
    /\ op'[p].name = name

\* C13: an Uninstall of the reserved name krew returns the self-uninstall
\* error at once, whether or not krew has a receipt, a symlink or an install
\* directory, and changes nothing on disk.
C13_SelfUninstallRefused ==
    [][ \A p \in Procs :
          BeginsUninstall(p, krewPluginName)
              => /\ pc'[p] = "done"
                 /\ ret'[p] = ErrSelfUninstall
                 /\ fs' = fs ]_vars

C13_Witness ==
    \E p \in Procs :
        /\ Returned(p, "Uninstall")
        /\ op[p].name = krewPluginName
        /\ ret[p] = ErrSelfUninstall
        /\ receipts[krewPluginName] # NoVersion
        /\ LinkEntry(krewPluginName).kind = "symlink"
        /\ Under(PluginInstallPath(krewPluginName), dirs) # {}

UninstallLookupFailed == Wrap(<<"EIO">>, "failed to look up install receipt for plugin")

\* C14: an Uninstall of a name other than krew that has no receipt returns
\* ErrIsNotInstalled at once (the lookup finding that no receipt exists) and
\* changes nothing on disk, a symlink or an install directory of that name
\* included.
C14_NotInstalledRemovesNothing ==
    [][ \A p \in Procs, n \in PluginNames \ {krewPluginName} :
          ( /\ BeginsUninstall(p, n)
            /\ receipts[n] = NoVersion
            /\ ret'[p] # UninstallLookupFailed )
              => /\ pc'[p] = "done"
                 /\ ret'[p] = ErrIsNotInstalled
                 /\ fs' = fs ]_vars

C14_Witness ==
    \E p \in Procs :
        /\ Returned(p, "Uninstall")
        /\ ret[p] = ErrIsNotInstalled
        /\ receipts[op[p].name] = NoVersion
        /\ LinkEntry(op[p].name).kind = "symlink"
        /\ Under(PluginInstallPath(op[p].name), dirs) # {}

\* process p's Install has returned after its archive pipeline step failed
DownloadFailed(p) ==
    /\ Returned(p, "Install")
    /\ "staged" \in seen[p]
    /\ "extracted" \notin seen[p]

\* C15 (as claimed): when the archive pipeline step of an Install fails, of a
\* plugin of which nothing was on disk, Install returns an error and there is
\* no staging directory, install directory, symlink or receipt of the plugin:
\* the disk is as the call found it.
C15_DownloadFailureLeavesNothing ==
    \A p \in Procs :
        (DownloadFailed(p) /\ FreshIn(op[p].pre, op[p].name))
            => /\ ret[p] # Nil
               /\ NothingInstalled(op[p].name)
               /\ downloadStagingDir(p) \notin dirs
               /\ fs = op[p].pre

\* C15 (amended): when the archive pipeline step of an Install fails, of a
\* plugin of which nothing was on disk, Install returns an error and there is
\* no install directory, symlink or receipt of the plugin; the disk is as the
\* call found it except that the staging directory is left when the deferred
\* cleanup failed.
C15_DownloadFailureLeavesOnlyStaging ==
    \A p \in Procs :
        (DownloadFailed(p) /\ FreshIn(op[p].pre, op[p].name))
            => /\ ret[p] # Nil
               /\ NothingInstalled(op[p].name)
               /\ receipts = op[p].pre[1]
               /\ links = op[p].pre[4]
               /\ RemoveAll(downloadStagingDir(p), dirs) = op[p].pre[2]
               /\ RemoveAll(downloadStagingDir(p), files) = op[p].pre[3]
               /\ "warned" \notin seen[p] => fs = op[p].pre

C15_Witness ==
    \E p \in Procs :
        /\ DownloadFailed(p)
        /\ FreshIn(op[p].pre, op[p].name)
        /\ ret[p] = <<"install failed", "failed to download and extract",
                      "failed to download and verify file", "ChecksumMismatch">>
        /\ fs = op[p].pre

\* the steps of install() all succeeded and the store of the receipt failed
StoreAloneFailed(events) == "symlinked" \in events /\ "stored" \notin events

\* process p's Install has returned, every step of install() having succeeded
\* and the store of the receipt having failed
StoreFailedAtInstall(p) == Returned(p, "Install") /\ StoreAloneFailed(seen[p])

\* process p's Uninstall has returned, not for a failed lookup, its call before
\* having been such an Install of the same name
UninstalledAfterStoreFailure(p) ==
    /\ Returned(p, "Uninstall")
    /\ last[p].kind = "Install"
    /\ last[p].name = op[p].name
    /\ StoreAloneFailed(last[p].seen)
    /\ ret[p] # UninstallLookupFailed

\* the symlink and the install directory of the name are on disk, no receipt is
LinkedWithoutReceipt(n) ==
    /\ LinkEntry(n).kind = "symlink"
    /\ Under(PluginInstallPath(n), dirs) # {}
    /\ receipts[n] = NoVersion

Installing(q, name) ==
    /\ op[q].kind = "Install"
    /\ op[q].name = name
    /\ pc[q] \in {"mkdir", "download", "move", "linkrm", "linkstat", "symlink",
                  "cleanup", "store"}

\* C17: no lock guards a plugin name. Whenever one process is inside install()
\* for a plugin that has no receipt yet, at whatever step, another process
\* that is free to make a call can begin an Install of the same plugin, pass
\* the receipt check and go on to install() with the same staging directory,
\* install directory and link path.
C17_SecondInstallPassesCheck ==
    \A p \in Procs, q \in Procs, plugin \in RacePlugins :
        ( /\ p # q
          /\ pc[p] = "idle"
          /\ calls < MaxOps
          /\ Installing(q, plugin.name)
          /\ receipts[plugin.name] = NoVersion )
            => ENABLED ( /\ Install(p, plugin)
                         /\ pc'[p] = "mkdir"
                         /\ downloadStagingDir(p)' = downloadStagingDir(q)
                         /\ installDir(p)' = installDir(q)
                         /\ LinkOf(op'[p].name) = LinkOf(op[q].name) )

\* both calls passed the check, ran every step on the same paths and returned nil
C17_Witness ==
    \E p \in Procs, q \in Procs :
        /\ p # q
        /\ Returned(p, "Install") /\ Returned(q, "Install")
        /\ op[p].name = op[q].name
        /\ ~op[p].had /\ ~op[q].had
        /\ downloadStagingDir(p) = downloadStagingDir(q)
        /\ installDir(p) = installDir(q)
        /\ {"staged", "moved", "symlinked", "stored"} \subseteq seen[p]
        /\ {"staged", "moved", "symlinked", "stored"} \subseteq seen[q]
        /\ ret[p] = Nil /\ ret[q] = Nil

\* l is the link name the claim derives for plugin name n: kubectl-, then n
\* with every dash an underscore, then .exe exactly when KREW_OS, or
\* runtime.GOOS when KREW_OS is empty, is windows
IsLinkNameOf(l, n) ==
    LET target == IF krewOS # "" THEN krewOS ELSE goos
        suffixed == Len(l) = Len(n) + 2 /\ l[Len(l)] = ".exe"
    IN /\ Len(l) \in {Len(n) + 1, Len(n) + 2}
       /\ l[1] = "kubectl-"
       /\ \A i \in 1..Len(n) : l[i + 1] = (IF n[i] = "-" THEN "_" ELSE n[i])
       /\ suffixed <=> target = "windows"

\* C18: the link name computed for a plugin name is the derived one, and
\* every step of an Install or an Uninstall that changes an entry of the bin
\* directory changes the entry of the derived name of the call's plugin, so
\* Install and Uninstall of one name act on one link path.
C18_LinkNameDerivation ==
    [][ /\ \A n \in PluginNames : IsLinkNameOf(pluginNameToBin(n, isWindows), n)
        /\ \A l \in LinkNames :
             links'[l] # links[l]
                 => \E p \in Procs :
                      /\ pc'[p] # pc[p]
                      /\ op[p].kind \in {"Install", "Uninstall"}
                      /\ IsLinkNameOf(l, op[p].name) ]_vars

\* on a Windows host with KREW_OS=linux, Uninstall has removed the unsuffixed
\* link that the Install of a-b had created
C18_Witness ==
    /\ goos = "windows"
    /\ krewOS = "linux"
    /\ \E p \in Procs :
          /\ pc[p] = "rmdir"
          /\ op[p].name = <<"a", "-", "b">>
          /\ op[p].had
          /\ "unlinked" \in seen[p]
          /\ links[<<"kubectl-", "a", "_", "b">>].kind = "none"
          /\ PluginVersionInstallPath(op[p].name, receipts[op[p].name]) \in dirs

\* C19: an Uninstall changes the link entry first, the install directory next
\* and the receipt last, each only after the steps before it succeeded; when
\* it has returned after a failed symlink removal, install directory and
\* receipt are as the call found them, and after a failed directory removal
\* the receipt is.
C19_UninstallOrder ==
    [][ \A p \in Procs :
          op[p].kind = "Uninstall"
              => /\ links' # links => pc[p] = "unlink"
                 /\ (dirs' # dirs \/ files' # files)
                        => (pc[p] = "rmdir" /\ "unlinked" \in seen[p])
                 /\ receipts' # receipts
                        => (pc[p] = "rmreceipt" /\ {"unlinked", "rmdir"} \subseteq seen[p])
                 /\ (pc[p] = "done" /\ "linkpath" \in seen[p] /\ "unlinked" \notin seen[p])
                        => /\ ret[p] # Nil
                           /\ receipts = op[p].pre[1]
                           /\ dirs = op[p].pre[2]
                           /\ files = op[p].pre[3]
                 /\ (pc[p] = "done" /\ "unlinked" \in seen[p] /\ "rmdir" \notin seen[p])
                        => /\ ret[p] # Nil
                           /\ receipts = op[p].pre[1] ]_vars

C19_Witness ==
    \E p \in Procs :
        /\ Returned(p, "Uninstall")
        /\ "linkpath" \in seen[p]
        /\ "unlinked" \notin seen[p]
        /\ LinkEntry(op[p].name).kind = "symlink"
        /\ receipts[op[p].name] # NoVersion
        /\ PluginVersionInstallPath(op[p].name, receipts[op[p].name]) \in dirs

\* C20: whenever install() is about to run the archive pipeline, the staging
\* directory exists and holds no file, whatever Install calls of that name
\* came before, those killed or left with a failed cleanup included.
C20_StagingEmptyAtDownload ==
    \A p \in Procs :
        pc[p] = "download"
            => /\ downloadStagingDir(p) \in dirs
               /\ Under(downloadStagingDir(p), files) = {}

C22_LookupFailureChangesNothing ==
    \A p \in Procs :
        op[p].load = "ioerror"
            => /\ pc[p] = "done"
               /\ Len(ret[p]) >= 2
               /\ ret[p] \notin {ErrIsAlreadyInstalled, ErrIsNotInstalled}
               /\ seen[p] = {}
               /\ fs = op[p].pre

\* an Uninstall of a plugin that is installed, and an Install of a plugin of
\* which a symlink and an install directory are on disk, after a failed load
C22_Witness ==
    \E p \in Procs :
        /\ op[p].load = "ioerror"
        /\ \/ /\ Returned(p, "Uninstall")
              /\ ret[p] = UninstallLookupFailed
              /\ receipts[op[p].name] # NoVersion
              /\ LinkEntry(op[p].name).kind = "symlink"
           \/ /\ Returned(p, "Install")
              /\ ret[p] = LookupFailed
              /\ LinkEntry(op[p].name).kind = "symlink"
              /\ Under(PluginInstallPath(op[p].name), dirs) # {}

\* C23: fetchPlugins terminates: in the end the producer loop is over, every
\* worker goroutine has exited, wg.Wait has returned and fetchPlugins has too.
C23_FetchTerminates ==
    <>( /\ fpc = "returned"
        /\ cursor = entries + 1
        /\ wg = 0
        /\ \A w \in Workers : wpc[w] = "exited" )

\* returned from a list longer than the workers are many, a readPlugin having
\* failed and entries having been skipped
C23_Witness ==
    /\ fpc = "returned"
    /\ entries > urlFetchBatchSize
    /\ failed # {}
    /\ Len(out) + Cardinality(failed) < entries
    /\ \A w \in Workers : wpc[w] = "exited"

\* C24: when fetchPlugins has returned, the error is nil exactly when no
\* readPlugin call failed, and then the slice holds each entry's plugin once.
C24_NilExactlyWhenAllRead ==
    fpc = "returned"
        => /\ fret[2] = 0 <=> failed = {}
           /\ fret[2] = 0
                 => /\ Len(fret[1]) = entries
                    /\ { fret[1][k] : k \in 1..Len(fret[1]) } = 1..entries

\* every entry read, the plugins returned in another order than the entries'
C24_Witness ==
    /\ fpc = "returned"
    /\ entries = MaxEntries
    /\ fret[2] = 0
    /\ Len(fret[1]) = entries
    /\ fret[1][1] # 1

\* C25: no two workers are at a write of retErr at the same time, nor at a
\* write of out.
C25_WritesSerialized ==
    \A v \in Workers, w \in Workers :
        v # w => /\ ~(wpc[v] = "seterr" /\ wpc[w] = "seterr")
                 /\ ~(wpc[v] = "append" /\ wpc[w] = "append")

====
